---- MODULE Spec2Model ----
(***************************************************************************)
(* Schema inference and versioning engine of SchemaFlow.                   *)
(*                                                                         *)
(*   infer.js   typeName, collect, buildSchema, deepDifferent,             *)
(*              inferAndMaybeCreateVersion                                 *)
(*   routes.js  POST /ingest, POST /admin/run, GET /schema/diff/:a/:b,     *)
(*              diffSchemas                                                *)
(*                                                                         *)
(* A JSON value is a record [t, kv, items]: t is the kind of the value,    *)
(* kv the key/value pairs of an object in key order, items the elements of *)
(* an array.  A JavaScript object whose key order matters (the statistics  *)
(* map, a fields map) is a sequence of entries in insertion order, which   *)
(* is the order Object.keys, Object.entries and JSON.stringify visit.      *)
(***************************************************************************)
EXTENDS Integers, Sequences, FiniteSets, TLC

(***************************************************************************)
(* Bounds of the model.                                                    *)
(***************************************************************************)
\* raw records ingested in one behaviour
MaxRaw == 2
\* calls of inferAndMaybeCreateVersion in one behaviour
MaxCalls == 2
\* the sample window: infer.js:57 defaults sampleSize to 30 and every caller
\* in routes.js uses the default; the model scales the window down
SampleSize == 1

(***************************************************************************)
(* JSON values.                                                            *)
(***************************************************************************)
Scalar(t) == [t |-> t, kv |-> <<>>, items |-> <<>>]
Obj(kv) == [t |-> "object", kv |-> kv, items |-> <<>>]
Arr(items) == [t |-> "array", kv |-> <<>>, items |-> items]

\* typeof v === "object": true of objects, of arrays and of null
TypeofObject(v) == v.t \in {"object", "array", "null"}

IsNullish(v) == v.t \in {"null", "undefined"}

typeName(v) ==
  IF IsNullish(v) THEN "null"
  ELSE IF v.t = "array" THEN "array"
  ELSE IF v.t = "object" THEN "object"
  ELSE IF v.t = "integer" THEN "integer"
  ELSE v.t

(***************************************************************************)
(* The statistics map: a sequence of [path, count, types], types being the *)
(* Set of type tags in insertion order.                                    *)
(***************************************************************************)
HasPath(stats, p) == \E i \in 1..Len(stats) : stats[i].path = p

SetAdd(types, tag) ==
  IF \E i \in 1..Len(types) : types[i] = tag THEN types ELSE Append(types, tag)

\* stats[key] = stats[key] || {count:0, types:new Set()};
\* stats[key].count++; stats[key].types.add(tag)
Bump(stats, key, tag) ==
  IF HasPath(stats, key)
  THEN [i \in 1..Len(stats) |->
          IF stats[i].path = key
          THEN [path |-> key, count |-> stats[i].count + 1,
                types |-> SetAdd(stats[i].types, tag)]
          ELSE stats[i]]
  ELSE Append(stats, [path |-> key, count |-> 1, types |-> <<tag>>])

\* the number of array elements collect visits: v.slice(0,3)
ArrayCap == 3

Min(a, b) == IF a < b THEN a ELSE b

RECURSIVE collect(_, _, _)
RECURSIVE CollectKeys(_, _, _, _)
RECURSIVE CollectItems(_, _, _, _)

\* the body of the for loop over Object.keys(obj), from key number i on
CollectKeys(kv, i, stats, prefix) ==
  IF i > Len(kv) THEN stats
  ELSE
    LET k == kv[i][1]
        v == kv[i][2]
        path == IF prefix # "" THEN prefix \o "." \o k ELSE k
        s1 == Bump(stats, path, typeName(v))
        s2 == IF TypeofObject(v) THEN collect(v, s1, path) ELSE s1
        s3 == IF v.t = "array"
              THEN CollectItems(v.items, 1, s2, path \o "[]")
              ELSE s2
    IN CollectKeys(kv, i + 1, s3, prefix)

\* every element visited, v.slice(0,3) left out
RECURSIVE CollectItemsAll(_, _, _, _)
CollectItemsAll(items, i, stats, path) ==
  IF i > Len(items) THEN stats
  ELSE CollectItemsAll(items, i + 1, collect(items[i], stats, path), path)

\* for (const item of v.slice(0,3)) collect(item, stats, `${path}[]`)
CollectItems(items, i, stats, path) ==
  IF i > Min(Len(items), ArrayCap) THEN stats
  ELSE CollectItems(items, i + 1, collect(items[i], stats, path), path)

collect(obj, stats, prefix) ==
  IF IsNullish(obj) THEN stats
  ELSE IF obj.t # "object"
  THEN Bump(stats, IF prefix # "" THEN prefix ELSE "value", typeName(obj))
  ELSE CollectKeys(obj.kv, 1, stats, prefix)

\* for (const s of samples) collect(s.payload, stats), from sample i on
RECURSIVE CollectAll(_, _, _)
CollectAll(samples, i, stats) ==
  IF i > Len(samples) THEN stats
  ELSE CollectAll(samples, i + 1, collect(samples[i], stats, ""))

\* optional: s.count <= total
buildSchemaOptionalLE(stats, total) ==
  [i \in 1..Len(stats) |->
     [path |-> stats[i].path,
      present |-> stats[i].count,
      optional |-> stats[i].count <= total,
      types |-> stats[i].types]]

buildSchema(stats, total) ==
  [i \in 1..Len(stats) |->
     [path |-> stats[i].path,
      present |-> stats[i].count,
      optional |-> stats[i].count < total,
      types |-> stats[i].types]]

(***************************************************************************)
(* JSON.stringify of a fields map and of one of its entries.               *)
(***************************************************************************)
Quote(s) == "\"" \o s \o "\""

RECURSIVE JoinFrom(_, _)
JoinFrom(strs, i) ==
  IF i > Len(strs) THEN ""
  ELSE IF i = Len(strs) THEN strs[i]
  ELSE strs[i] \o "," \o JoinFrom(strs, i + 1)

StringifyTypes(types) ==
  "[" \o JoinFrom([i \in 1..Len(types) |-> Quote(types[i])], 1) \o "]"

StringifyEntry(e) ==
  "{" \o Quote("present") \o ":" \o ToString(e.present) \o ","
      \o Quote("optional") \o ":" \o (IF e.optional THEN "true" ELSE "false") \o ","
      \o Quote("types") \o ":" \o StringifyTypes(e.types) \o "}"

StringifyFields(fields) ==
  "{" \o JoinFrom([i \in 1..Len(fields) |->
                     Quote(fields[i].path) \o ":" \o StringifyEntry(fields[i])], 1)
      \o "}"

deepDifferentByReference(a, b) == TRUE
deepDifferent(a, b) == StringifyFields(a) # StringifyFields(b)

(***************************************************************************)
(* diffSchemas of routes.js: the three path lists, in key order.           *)
(***************************************************************************)
Keys(fields) == [i \in 1..Len(fields) |-> fields[i].path]

Includes(keys, k) == \E i \in 1..Len(keys) : keys[i] = k

\* fields[k] of a fields map that has the key k
Lookup(fields, k) == fields[CHOOSE i \in 1..Len(fields) : fields[i].path = k]

\* keys.filter(k => Keep(k)), Keep given as the set of keys to keep
RECURSIVE FilterFrom(_, _, _)
FilterFrom(keys, i, keep) ==
  IF i > Len(keys) THEN <<>>
  ELSE (IF keys[i] \in keep THEN <<keys[i]>> ELSE <<>>)
       \o FilterFrom(keys, i + 1, keep)

Range(seq) == {seq[i] : i \in 1..Len(seq)}

\* removed filtered from the wrong key list
diffSchemasRemovedFromB(fieldsA, fieldsB) ==
  LET keysA == Keys(fieldsA)
      keysB == Keys(fieldsB)
      added == FilterFrom(keysB, 1, {k \in Range(keysB) : ~Includes(keysA, k)})
  IN [added |-> added, removed |-> added, changed |-> <<>>]

\* added collected back to front
diffSchemasAddedReversed(fieldsA, fieldsB) ==
  LET keysA == Keys(fieldsA)
      keysB == Keys(fieldsB)
      added == FilterFrom(keysB, 1, {k \in Range(keysB) : ~Includes(keysA, k)})
      removed == FilterFrom(keysA, 1, {k \in Range(keysA) : ~Includes(keysB, k)})
  IN [added |-> [i \in 1..Len(added) |-> added[Len(added) + 1 - i]],
      removed |-> removed, changed |-> <<>>]

\* changed filtered from every key of A, a missing entry read as {}
diffSchemasChangedFromAll(fieldsA, fieldsB) ==
  LET keysA == Keys(fieldsA)
      keysB == Keys(fieldsB)
      added == FilterFrom(keysB, 1, {k \in Range(keysB) : ~Includes(keysA, k)})
      removed == FilterFrom(keysA, 1, {k \in Range(keysA) : ~Includes(keysB, k)})
      changed ==
        FilterFrom(keysA, 1,
          {k \in Range(keysA) :
             \/ ~Includes(keysB, k)
             \/ StringifyEntry(Lookup(fieldsA, k)) # StringifyEntry(Lookup(fieldsB, k))})
  IN [added |-> added, removed |-> removed, changed |-> changed]

diffSchemas(fieldsA, fieldsB) ==
  LET keysA == Keys(fieldsA)
      keysB == Keys(fieldsB)
      added == FilterFrom(keysB, 1, {k \in Range(keysB) : ~Includes(keysA, k)})
      removed == FilterFrom(keysA, 1, {k \in Range(keysA) : ~Includes(keysB, k)})
      possibleChanged ==
        FilterFrom(keysA, 1, {k \in Range(keysA) : Includes(keysB, k)})
      changed ==
        FilterFrom(possibleChanged, 1,
          {k \in Range(possibleChanged) :
             StringifyEntry(Lookup(fieldsA, k)) # StringifyEntry(Lookup(fieldsB, k))})
  IN [added |-> added, removed |-> removed, changed |-> changed]

(***************************************************************************)
(* The state.                                                              *)
(*   raw       the RawRecord collection, payloads in ingestion order       *)
(*   versions  the SchemaVersion collection, snapshots in creation order   *)
(*   calls     the calls of inferAndMaybeCreateVersion, in the order they  *)
(*             were invoked                                                *)
(*   diffResp  the last response of GET /schema/diff/:a/:b                 *)
(*   input     the arguments of a function applied on its own (collect,    *)
(*   output    buildSchema, diffSchemas) and its result; unused by the     *)
(*             routes                                                      *)
(***************************************************************************)
VARIABLES raw, versions, calls, diffResp, input, output

vars == <<raw, versions, calls, diffResp, input, output>>

\* no function applied on its own
NoValue == <<>>
pure == <<input, output>>

\* the payloads ingested: {"a": 1}, {"a": [1, "x"]} and {"a": ["x", 1]}
DocInt == Obj(<< <<"a", Scalar("integer")>> >>)
DocMix == Obj(<< <<"a", Arr(<<Scalar("integer"), Scalar("string")>>)>> >>)
DocMixR == Obj(<< <<"a", Arr(<<Scalar("string"), Scalar("integer")>>)>> >>)
Docs == {DocInt, DocMix, DocMixR}

\* findOne() of an empty collection: null
NoSnap == [version |-> 0, fields |-> <<>>, totalSamples |-> 0, notes |-> ""]

CallIds == 1..MaxCalls

\* a call not yet invoked
NoCall ==
  [pc |-> "unstarted", kind |-> "", seen |-> 0, total |-> 0, newSchema |-> <<>>,
   latest |-> NoSnap, result |-> "", ret |-> NoSnap, wrote |-> FALSE,
   solo |-> FALSE, failed |-> FALSE, http |-> 0]

Active(c) == calls[c].pc \in {"sample", "latest", "create"}
Done(c) == calls[c].pc = "done"

NoDiff == [status |-> 0, added |-> <<>>, removed |-> <<>>, changed |-> <<>>]

Init ==
  /\ raw = <<>>
  /\ versions = <<>>
  /\ calls = [c \in CallIds |-> NoCall]
  /\ diffResp = NoDiff
  /\ input = NoValue
  /\ output = NoValue

(***************************************************************************)
(* Invoking inferAndMaybeCreateVersion: the next call starts, at its first *)
(* await.  A call that starts while another runs is not alone, and neither *)
(* is the other.                                                           *)
(***************************************************************************)
NextCall == CHOOSE c \in CallIds : calls[c].pc = "unstarted"
              /\ \A d \in CallIds : d < c => calls[d].pc # "unstarted"

CanInvoke == \E c \in CallIds : calls[c].pc = "unstarted"

\* the calls started by a route that writes a raw record
IngestKinds == {"ingest"}

\* res.status(201).json(...) of /ingest, res.json(...) of /admin/run
SuccessStatus(kind) == IF kind = "ingest" THEN 201 ELSE 200

\* inferAndMaybeCreateVersion().catch(() => {}): an ingestion route does not
\* await the pass, it responds at once; /admin/run awaits it
RespondsAtOnceAwaited(kind) == FALSE
RespondsAtOnce(kind) == kind \in IngestKinds

\* the response of a route that awaited the pass: its catch answers 500
ResponseAfter(kind, result) ==
  IF result \in {"conflict", "failure"} THEN 500 ELSE SuccessStatus(kind)

Invoke(kind) ==
  LET n == NextCall
      alone == \A d \in CallIds : ~Active(d)
  IN [c \in CallIds |->
        IF c = n
        THEN [NoCall EXCEPT !.pc = "sample", !.kind = kind, !.solo = alone,
                            !.http = IF RespondsAtOnce(kind)
                                     THEN SuccessStatus(kind) ELSE 0]
        ELSE IF Active(c) THEN [calls[c] EXCEPT !.solo = FALSE]
        ELSE calls[c]]

\* POST /ingest: the raw record is written, the response is sent and the
\* inference pass runs in the background.  POST /upload does the same with
\* the extracted payload (it starts the pass, then answers 200 at once), so
\* this action stands for both ingestion routes.
Ingest(d) ==
  /\ Len(raw) < MaxRaw
  /\ CanInvoke
  /\ raw' = Append(raw, d)
  /\ calls' = Invoke("ingest")
  /\ UNCHANGED <<versions, diffResp, pure>>

\* POST /admin/run
AdminRun ==
  /\ CanInvoke
  /\ calls' = Invoke("admin")
  /\ UNCHANGED <<raw, versions, diffResp, pure>>

(***************************************************************************)
(* The two collections, as inferAndMaybeCreateVersion and the diff route   *)
(* query them.                                                             *)
(***************************************************************************)
\* RawRecord.find().sort({ingestedAt:-1}).limit(n): the newest first
FindRecent(records, n) ==
  [i \in 1..Min(n, Len(records)) |-> records[Len(records) + 1 - i]]

\* SchemaVersion.findOne().sort({version:-1})
FindLatest(store) ==
  IF Len(store) = 0 THEN NoSnap
  ELSE store[CHOOSE i \in 1..Len(store) :
               \A j \in 1..Len(store) :
                 \/ store[j].version < store[i].version
                 \/ (store[j].version = store[i].version /\ i <= j)]

\* SchemaVersion.findOne({version: v})
FindByVersion(store, v) ==
  IF \E i \in 1..Len(store) : store[i].version = v
  THEN store[CHOOSE i \in 1..Len(store) :
               /\ store[i].version = v
               /\ \A j \in 1..Len(store) : store[j].version = v => i <= j]
  ELSE NoSnap

\* the append of the version store refuses a version number it already holds
DuplicateKeyMut(store, v) == FALSE
DuplicateKey(store, v) == \E i \in 1..Len(store) : store[i].version = v

(***************************************************************************)
(* inferAndMaybeCreateVersion, one action for each await.                  *)
(***************************************************************************)
Finish(c, result, ret, wrote) ==
  [calls EXCEPT ![c].pc = "done", ![c].result = result, ![c].ret = ret,
                ![c].wrote = wrote,
                ![c].http = IF calls[c].http = 0
                            THEN ResponseAfter(calls[c].kind, result)
                            ELSE calls[c].http]

\* if (samples.length === 0) return null
NoSamplesMut(samples) == FALSE
NoSamples(samples) == Len(samples) = 0

\* line 58 to 64: the sample is read and the candidate is built
Sample(c) ==
  /\ calls[c].pc = "sample"
  /\ LET samples == FindRecent(raw, SampleSize)
     IN IF NoSamples(samples)
        THEN calls' = Finish(c, "null", NoSnap, FALSE)
        ELSE calls' = [calls EXCEPT
               ![c].pc = "latest",
               ![c].seen = Len(raw),
               ![c].total = Len(samples),
               ![c].newSchema =
                  buildSchema(CollectAll(samples, 1, <<>>), Len(samples))]
  /\ UNCHANGED <<raw, versions, diffResp, pure>>

\* !latest || deepDifferent(latest.fields, newSchema)
NeedsVersion(latest, newSchema) ==
  latest = NoSnap \/ deepDifferent(latest.fields, newSchema)

\* line 65 to 67: the latest snapshot is read and compared with the candidate
FetchLatest(c) ==
  /\ calls[c].pc = "latest"
  /\ LET latest == FindLatest(versions)
     IN IF NeedsVersion(latest, calls[c].newSchema)
        THEN calls' = [calls EXCEPT ![c].pc = "create", ![c].latest = latest]
        ELSE calls' = [Finish(c, "null", NoSnap, FALSE) EXCEPT ![c].latest = latest]
  /\ UNCHANGED <<raw, versions, diffResp, pure>>

\* const newVer = latest ? latest.version + 1 : 1
NewVerSkip(latest) == IF latest # NoSnap THEN latest.version + 2 ELSE 1
NewVerBack(latest) == IF latest # NoSnap THEN latest.version - 1 ELSE 1
NewVer(latest) == IF latest # NoSnap THEN latest.version + 1 ELSE 1

\* the document handed to SchemaVersion.create
NewSnapshot(c) ==
  [version |-> NewVer(calls[c].latest),
   fields |-> calls[c].newSchema,
   totalSamples |-> calls[c].total,
   notes |-> "auto"]

\* SchemaVersion.create(doc) on the collection: a new document
CreatedOverwrite(store, doc) ==
  IF Len(store) = 0 THEN <<doc>> ELSE [store EXCEPT ![Len(store)] = doc]
Created(store, doc) == Append(store, doc)

\* return await SchemaVersion.create({...}): the created snapshot is the
\* result, and a refusal of the store rejects the call; nothing catches it
CreateOutcomeRetry(store, doc) ==
  IF DuplicateKey(store, doc.version)
  THEN LET again == [doc EXCEPT !.version = FindLatest(store).version + 1]
       IN [store |-> Created(store, again), result |-> "snapshot", ret |-> again]
  ELSE [store |-> Created(store, doc), result |-> "snapshot", ret |-> doc]
CreateOutcome(store, doc) ==
  IF DuplicateKey(store, doc.version)
  THEN [store |-> store, result |-> "conflict", ret |-> NoSnap]
  ELSE [store |-> Created(store, doc), result |-> "snapshot", ret |-> doc]

\* line 69 to 74: the snapshot is appended and returned, or the call rejects
Create(c) ==
  /\ calls[c].pc = "create"
  /\ LET out == CreateOutcome(versions, NewSnapshot(c))
     IN /\ versions' = out.store
        /\ calls' = Finish(c, out.result, out.ret, out.store # versions)
  /\ UNCHANGED <<raw, diffResp, pure>>

\* a rejected await is not caught: the call rejects with the store's error
FailureSwallowed == "null"
FailureResult == "failure"

\* line 65: the read of the latest snapshot fails
FetchLatestFails(c) ==
  /\ calls[c].pc = "latest"
  /\ calls' = [Finish(c, FailureResult, NoSnap, FALSE) EXCEPT ![c].failed = TRUE]
  /\ UNCHANGED <<raw, versions, diffResp, pure>>

\* an append that fails leaves the collection as it was
FailedAppend(store, doc) == store

\* line 69: the append of the new snapshot fails
CreateFails(c) ==
  /\ calls[c].pc = "create"
  /\ versions' = FailedAppend(versions, NewSnapshot(c))
  /\ calls' = [Finish(c, FailureResult, NoSnap, FALSE) EXCEPT ![c].failed = TRUE]
  /\ UNCHANGED <<raw, diffResp, pure>>

(***************************************************************************)
(* GET /schema/diff/:a/:b.  A parameter is a number or NaN.                *)
(***************************************************************************)
NaN == [nan |-> TRUE, n |-> 0]
Num(k) == [nan |-> FALSE, n |-> k]
DiffParams == {NaN, Num(1), Num(2)}

\* a missing version read as an empty field map
DiffResponseEmptyForMissing(store, a, b) ==
  IF a.nan \/ b.nan THEN [NoDiff EXCEPT !.status = 400]
  ELSE LET docA == FindByVersion(store, a.n)
           docB == FindByVersion(store, b.n)
           diff == diffSchemas(docA.fields, docB.fields)
       IN [status |-> 200, added |-> diff.added,
           removed |-> diff.removed, changed |-> diff.changed]

DiffResponse(store, a, b) ==
  IF a.nan \/ b.nan THEN [NoDiff EXCEPT !.status = 400]
  ELSE LET docA == FindByVersion(store, a.n)
           docB == FindByVersion(store, b.n)
       IN IF docA = NoSnap \/ docB = NoSnap THEN [NoDiff EXCEPT !.status = 404]
          ELSE LET diff == diffSchemas(docA.fields, docB.fields)
               IN [status |-> 200, added |-> diff.added,
                   removed |-> diff.removed, changed |-> diff.changed]

Diff(a, b) ==
  /\ diffResp' = DiffResponse(versions, a, b)
  /\ UNCHANGED <<raw, versions, calls, pure>>

Next ==
  \/ \E d \in Docs : Ingest(d)
  \/ AdminRun
  \/ \E c \in CallIds : Sample(c)
  \/ \E c \in CallIds : FetchLatest(c)
  \/ \E c \in CallIds : Create(c)
  \/ \E c \in CallIds : FetchLatestFails(c)
  \/ \E c \in CallIds : CreateFails(c)
  \/ \E a, b \in DiffParams : Diff(a, b)

Spec == Init /\ [][Next]_vars

(***************************************************************************)
(* diffSchemas applied on its own to two field maps of at most MaxKeys     *)
(* paths each.                                                             *)
(***************************************************************************)
MaxKeys == 2

DiffPaths == {"a", "b", "c"}

\* what a path can carry: two type lists that differ in order only, and one
\* entry that differs in count, flag and types
EntryIS == [present |-> 2, optional |-> FALSE, types |-> <<"integer", "string">>]
EntrySI == [present |-> 2, optional |-> FALSE, types |-> <<"string", "integer">>]
EntryI == [present |-> 1, optional |-> TRUE, types |-> <<"integer">>]
DiffEntries == {EntryIS, EntrySI, EntryI}

Field(p, e) ==
  [path |-> p, present |-> e.present, optional |-> e.optional, types |-> e.types]

FieldMaps ==
  {f \in UNION {[1..n -> {Field(p, e) : p \in DiffPaths, e \in DiffEntries}] :
                  n \in 0..MaxKeys} :
     \A i, j \in 1..Len(f) : i # j => f[i].path # f[j].path}

InitDiff ==
  /\ raw = <<>>
  /\ versions = <<>>
  /\ calls = [c \in CallIds |-> NoCall]
  /\ diffResp = NoDiff
  /\ input \in {<<A, B>> : A \in FieldMaps, B \in FieldMaps}
  /\ output = NoValue

\* diffSchemas(A, B), diffSchemas(B, A) and diffSchemas(A, A)
ApplyDiff ==
  /\ output = NoValue
  /\ output' = <<diffSchemas(input[1], input[2]),
                 diffSchemas(input[2], input[1]),
                 diffSchemas(input[1], input[1])>>
  /\ UNCHANGED <<raw, versions, calls, diffResp, input>>

NextDiff == ApplyDiff

SpecDiff == InitDiff /\ [][NextDiff]_vars

(***************************************************************************)
(* collect applied on its own to one document and a fresh statistics map.  *)
(* The document is empty or has one field a: a scalar, null, or an array   *)
(* of at most MaxItems elements, each an integer, a string or an object    *)
(* with one key k.                                                         *)
(***************************************************************************)
MaxItems == 4

ItemValues == {Scalar("integer"), Scalar("string"), Obj(<< <<"k", Scalar("integer")>> >>)}

ArrayValues == {Arr(items) : items \in UNION {[1..n -> ItemValues] : n \in 0..MaxItems}}

FieldValues == {Scalar("integer"), Scalar("string"), Scalar("null")} \cup ArrayValues

CollectDocs == {Obj(<<>>)} \cup {Obj(<< <<"a", v>> >>) : v \in FieldValues}

InitCollect ==
  /\ raw = <<>>
  /\ versions = <<>>
  /\ calls = [c \in CallIds |-> NoCall]
  /\ diffResp = NoDiff
  /\ input \in {<<d>> : d \in CollectDocs}
  /\ output = NoValue

\* const stats = {}; collect(payload, stats)
ApplyCollect ==
  /\ output = NoValue
  /\ output' = <<collect(input[1], <<>>, "")>>
  /\ UNCHANGED <<raw, versions, calls, diffResp, input>>

NextCollect == ApplyCollect

SpecCollect == InitCollect /\ [][NextCollect]_vars

(***************************************************************************)
(* The candidate of a sample: collect over the documents in the order      *)
(* given, then buildSchema with the number of documents.                   *)
(***************************************************************************)
MaxDocs == 2

SchemaDocs ==
  {Obj(<<>>),
   Obj(<< <<"a", Scalar("integer")>> >>),
   Obj(<< <<"a", Scalar("string")>> >>),
   Obj(<< <<"a", Scalar("null")>> >>),
   Obj(<< <<"b", Scalar("integer")>> >>),
   Obj(<< <<"a", Scalar("integer")>>, <<"b", Scalar("string")>> >>),
   Obj(<< <<"a", Arr(<<>>)>> >>),
   Obj(<< <<"a", Arr(<<Scalar("integer")>>)>> >>),
   Obj(<< <<"a", Arr(<<Scalar("integer"), Scalar("string")>>)>> >>),
   Obj(<< <<"a", Arr(<<Obj(<< <<"k", Scalar("integer")>> >>)>>)>> >>)}

Candidate(samples) == buildSchema(CollectAll(samples, 1, <<>>), Len(samples))

InitBuild ==
  /\ raw = <<>>
  /\ versions = <<>>
  /\ calls = [c \in CallIds |-> NoCall]
  /\ diffResp = NoDiff
  /\ input \in UNION {[1..n -> SchemaDocs] : n \in 1..MaxDocs}
  /\ output = NoValue

ApplyBuild ==
  /\ output = NoValue
  /\ output' = <<Candidate(input)>>
  /\ UNCHANGED <<raw, versions, calls, diffResp, input>>

NextBuild == ApplyBuild

SpecBuild == InitBuild /\ [][NextBuild]_vars

(***************************************************************************)
(* collect applied to payloads that are no objects: a scalar, null or      *)
(* undefined at the top level.  The statistics map is fresh for the first  *)
(* payload and carries the earlier payloads' entries for the last one.     *)
(***************************************************************************)
MaxTop == 3

TopValues ==
  {Scalar(t) : t \in {"integer", "number", "string", "boolean", "null", "undefined"}}

InitTop ==
  /\ raw = <<>>
  /\ versions = <<>>
  /\ calls = [c \in CallIds |-> NoCall]
  /\ diffResp = NoDiff
  /\ input \in UNION {[1..n -> TopValues] : n \in 1..MaxTop}
  /\ output = NoValue

\* the statistics before and after collect of the last payload
ApplyTop ==
  /\ output = NoValue
  /\ LET before == CollectAll(SubSeq(input, 1, Len(input) - 1), 1, <<>>)
     IN output' = <<before, collect(input[Len(input)], before, "")>>
  /\ UNCHANGED <<raw, versions, calls, diffResp, input>>

NextTop == ApplyTop

SpecTop == InitTop /\ [][NextTop]_vars

(***************************************************************************)
(* Vocabulary of the properties.                                           *)
(***************************************************************************)
\* the call sampled at least one record, so it went on to read the latest,
\* and no read or append of the store failed under it
Sampled(c) == Done(c) /\ calls[c].total > 0 /\ ~calls[c].failed

\* no prior snapshot exists, or the candidate fields differ from the latest's
Differs(latest, newSchema) == latest = NoSnap \/ latest.fields # newSchema

\* the version number after the latest the call read
Target(c) == IF calls[c].latest = NoSnap THEN 1 ELSE calls[c].latest.version + 1

\* calls that all read the same latest snapshot and all computed the same
\* candidate, different from that latest
SameRace(G) ==
  /\ Cardinality(G) >= 2
  /\ \A c \in G : Sampled(c) /\ Differs(calls[c].latest, calls[c].newSchema)
  /\ \A c, d \in G :
       /\ calls[c].latest = calls[d].latest
       /\ calls[c].newSchema = calls[d].newSchema

\* another writer created the version the call was about to create
LostRace(c) ==
  /\ Sampled(c)
  /\ Differs(calls[c].latest, calls[c].newSchema)
  /\ ~calls[c].wrote
  /\ \E i \in 1..Len(versions) : versions[i].version = Target(c)

\* two calls in immediate succession: call c is an administrative run that
\* ran alone right after call c - 1, which ran alone too; every ingestion
\* invokes a call, so no record was written from the start of c - 1 on
Succession(c) ==
  /\ c > 1
  /\ Done(c)
  /\ calls[c].kind = "admin"
  /\ calls[c].solo
  /\ calls[c - 1].solo
  /\ ~calls[c].failed
  /\ ~calls[c - 1].failed

\* the same paths, present and optional values, and per path the same set
\* of type tags
SameUpToTypeOrder(A, B) ==
  /\ Range(Keys(A)) = Range(Keys(B))
  /\ \A k \in Range(Keys(A)) :
       /\ Lookup(A, k).present = Lookup(B, k).present
       /\ Lookup(A, k).optional = Lookup(B, k).optional
       /\ Range(Lookup(A, k).types) = Range(Lookup(B, k).types)

(***************************************************************************)
(* C1: when two or more calls have all read the same latest snapshot and   *)
(* all computed the same candidate, different from it, and no call outside *)
(* the group wrote a snapshot on top of that latest, then once they have   *)
(* all finished exactly one of them has persisted a snapshot, and the      *)
(* store holds exactly one snapshot with the next version number.          *)
(***************************************************************************)
C1_OneVersionPerRace ==
  \A G \in SUBSET CallIds :
    ( /\ SameRace(G)
      /\ \A d \in CallIds \ G : \A c \in G :
           ~(calls[d].wrote /\ calls[d].latest = calls[c].latest) )
    => /\ Cardinality({c \in G : calls[c].wrote}) = 1
       /\ \A c \in G :
            Cardinality({i \in 1..Len(versions) :
                           versions[i].version = Target(c)}) = 1

C1_Witness ==
  \E G \in SUBSET CallIds :
    /\ SameRace(G)
    /\ \E c \in G : calls[c].result = "snapshot"
    /\ \E c \in G : calls[c].result = "conflict"

(***************************************************************************)
(* C2: no two persisted snapshots carry the same version number.           *)
(***************************************************************************)
C2_UniqueVersions ==
  \A i, j \in 1..Len(versions) :
    i # j => versions[i].version # versions[j].version

\* two calls, one started by an ingestion and one by the administrator,
\* went for the same version number
C2_Witness ==
  \E c, d \in CallIds :
    /\ c # d
    /\ Sampled(c) /\ Sampled(d)
    /\ calls[c].kind = "ingest" /\ calls[d].kind = "admin"
    /\ calls[c].result \in {"snapshot", "conflict"}
    /\ calls[d].result \in {"snapshot", "conflict"}
    /\ Target(c) = Target(d)

(***************************************************************************)
(* C3: the persisted version numbers are exactly 1 .. n for the number n   *)
(* of persisted snapshots.                                                 *)
(***************************************************************************)
C3_NoGaps ==
  {versions[i].version : i \in 1..Len(versions)} = 1..Len(versions)

C3_Witness == Len(versions) >= 2

(***************************************************************************)
(* C4: a snapshot with a smaller version number was appended to the store  *)
(* before every snapshot with a greater one.                               *)
(***************************************************************************)
C4_CreationOrder ==
  \A i, j \in 1..Len(versions) :
    versions[i].version < versions[j].version => i < j

C4_Witness ==
  \E i, j \in 1..Len(versions) :
    i < j /\ versions[i].version < versions[j].version

(***************************************************************************)
(* C5: a call that lost the race for the next version number does not end  *)
(* with an error: it returns null (or the snapshot of a retry).            *)
(***************************************************************************)
C5_LoserNoError ==
  \A c \in CallIds : LostRace(c) => calls[c].result \in {"null", "snapshot"}

C7_CreatesExactlyWhenDifferent ==
  \A c \in CallIds :
    Sampled(c) =>
      IF Differs(calls[c].latest, calls[c].newSchema)
      THEN /\ calls[c].result = "snapshot"
           /\ calls[c].ret.version = Target(c)
           /\ calls[c].ret.fields = calls[c].newSchema
           /\ calls[c].ret.totalSamples = Min(SampleSize, calls[c].seen)
           /\ calls[c].ret \in Range(versions)
      ELSE calls[c].result = "null" /\ ~calls[c].wrote

(***************************************************************************)
(* C8: a call that finds no raw record returns null and persists nothing.  *)
(***************************************************************************)
C8_NoRecordsNoVersion ==
  \A c \in CallIds :
    (Done(c) /\ calls[c].total = 0) =>
      /\ calls[c].result = "null"
      /\ ~calls[c].wrote
      /\ calls[c].ret = NoSnap

C8_Witness ==
  \E c \in CallIds :
    Done(c) /\ calls[c].total = 0 /\ calls[c].result = "null" /\ versions = <<>>

(***************************************************************************)
(* C9: when the candidate and the latest snapshot's fields have the same   *)
(* paths, present and optional values and per path the same set of type    *)
(* tags, in whatever order, the call creates no new version.               *)
(***************************************************************************)
C9_TypeOrderIgnored ==
  \A c \in CallIds :
    ( /\ Sampled(c)
      /\ calls[c].latest # NoSnap
      /\ SameUpToTypeOrder(calls[c].latest.fields, calls[c].newSchema) )
    => calls[c].result = "null" /\ ~calls[c].wrote

(***************************************************************************)
(* C10: no step, of an inference pass or of the diff route, changes or     *)
(* removes a snapshot that is already in the store.                        *)
(***************************************************************************)
C10_AppendOnly ==
  [][ \A i \in 1..Len(versions) :
        i <= Len(versions') /\ versions'[i] = versions[i] ]_vars

\* the store holds two snapshots and a diff of two stored versions was served
C10_Witness == Len(versions) >= 2 /\ diffResp.status = 200

(***************************************************************************)
(* C11: an ingestion whose raw record is written is answered with success  *)
(* as soon as its inference pass is started, and the answer stays the same *)
(* while the pass runs and after it has returned a snapshot, returned null *)
(* or failed.                                                              *)
(***************************************************************************)
C11_IngestAnswerIndependent ==
  \A c \in CallIds :
    (calls[c].kind \in IngestKinds /\ calls[c].pc # "unstarted")
      => calls[c].http = 201

\* the pass of one ingestion failed and the pass of another lost the race or
\* is still running
C11_Witness ==
  \E c, d \in CallIds :
    /\ calls[c].kind \in IngestKinds /\ calls[d].kind \in IngestKinds
    /\ Done(c) /\ calls[c].result = "failure"
    /\ (Active(d) \/ calls[d].result = "conflict")

(***************************************************************************)
(* C12: a call under which the read of the latest snapshot or the append   *)
(* failed ends with an error, not with null or a snapshot (and /admin/run  *)
(* answers 500); and a call has put a snapshot in the store if and only if *)
(* it returned that snapshot.                                              *)
(***************************************************************************)
C12_FailureSurfacesAllOrNothing ==
  \A c \in CallIds :
    Done(c) =>
      /\ calls[c].failed =>
           /\ calls[c].result = "failure"
           /\ calls[c].kind = "admin" => calls[c].http = 500
      /\ calls[c].wrote <=> calls[c].result = "snapshot"
      /\ calls[c].result = "snapshot" => calls[c].ret \in Range(versions)
      /\ calls[c].result # "snapshot" => calls[c].ret = NoSnap

\* an administrative run failed at the append, and another call created a
\* snapshot
C12_Witness ==
  \E c, d \in CallIds :
    /\ Done(c) /\ calls[c].failed /\ calls[c].kind = "admin"
    /\ calls[c].total > 0
    /\ calls[d].result = "snapshot"

(***************************************************************************)
(* C13: added is exactly the paths that are keys of B and not of A,        *)
(* removed exactly the keys of A that are not keys of B; for A with paths  *)
(* a, b and B with paths a, c, a identical in both, the result is added    *)
(* [c], removed [b], changed [].                                           *)
(***************************************************************************)
DiffApplied == Len(output) = 3

C13_AddedRemoved ==
  DiffApplied =>
    LET A == input[1]
        B == input[2]
        d == output[1]
    IN /\ Range(d.added) = Range(Keys(B)) \ Range(Keys(A))
       /\ Range(d.removed) = Range(Keys(A)) \ Range(Keys(B))
       /\ Len(d.added) = Cardinality(Range(d.added))
       /\ Len(d.removed) = Cardinality(Range(d.removed))
       /\ ( /\ Keys(A) = <<"a", "b">>
            /\ Keys(B) = <<"a", "c">>
            /\ A[1] = B[1] )
          => d = [added |-> <<"c">>, removed |-> <<"b">>, changed |-> <<>>]

C13_Witness ==
  /\ DiffApplied
  /\ Keys(input[1]) = <<"a", "b">>
  /\ Keys(input[2]) = <<"a", "c">>
  /\ input[1][1] = input[2][1]
  /\ output[1].added = <<"c">>

(***************************************************************************)
(* C14: diff(A, B).added equals diff(B, A).removed and diff(A, B).removed  *)
(* equals diff(B, A).added, as ordered sequences.                          *)
(***************************************************************************)
C14_DiffSymmetry ==
  DiffApplied =>
    /\ output[1].added = output[2].removed
    /\ output[1].removed = output[2].added

\* two paths were added, so their order shows
C14_Witness == DiffApplied /\ Len(output[1].added) = 2 /\ Len(output[2].removed) = 2

(***************************************************************************)
(* C15: a path is in changed if and only if it is a key of both maps and   *)
(* its entries differ once the type lists are in canonical order; a path   *)
(* whose entries differ only in the order of the type list is not changed. *)
(***************************************************************************)
SameCanonical(e1, e2) ==
  /\ e1.present = e2.present
  /\ e1.optional = e2.optional
  /\ Range(e1.types) = Range(e2.types)

C15_ChangedCanonical ==
  DiffApplied =>
    LET A == input[1]
        B == input[2]
    IN Range(output[1].changed) =
         {k \in Range(Keys(A)) \cap Range(Keys(B)) :
            ~SameCanonical(Lookup(A, k), Lookup(B, k))}

(***************************************************************************)
(* C16: a diff request naming a version number that is not in the store is *)
(* answered with not-found (404), not with a failure (500), carries no     *)
(* diff, and leaves the store unchanged.                                   *)
(***************************************************************************)
Missing(a, b) ==
  /\ ~a.nan /\ ~b.nan
  /\ FindByVersion(versions, a.n) = NoSnap \/ FindByVersion(versions, b.n) = NoSnap

C16_MissingVersionNotFound ==
  [][(/\ calls' = calls
       /\ \E a, b \in DiffParams : Missing(a, b) /\ Diff(a, b))
        => /\ diffResp' = [NoDiff EXCEPT !.status = 404]
           /\ versions' = versions]_vars

\* one version is stored and a request for a missing one was answered
C16_Witness == Len(versions) = 1 /\ diffResp.status = 404

(***************************************************************************)
(* C17: collect applied to a document and a fresh statistics map yields    *)
(* one entry per distinct path reachable within the array cap, and every   *)
(* entry has occurrence count exactly 1.                                   *)
(***************************************************************************)
Collected == Len(output) = 1

C17_OneEntryCountOne ==
  Collected =>
    LET stats == output[1]
    IN /\ \A i, j \in 1..Len(stats) : i # j => stats[i].path # stats[j].path
       /\ \A i \in 1..Len(stats) : stats[i].count = 1

(***************************************************************************)
(* C18: in the candidate of a sample, present of a path is the number of   *)
(* sampled documents that expose the path, so never more than the number   *)
(* of samples, and optional holds exactly when some sampled document does  *)
(* not expose the path.                                                    *)
(***************************************************************************)
Paths(doc) ==
  LET stats == collect(doc, <<>>, "")
  IN {stats[i].path : i \in 1..Len(stats)}

Exposing(samples, p) == {i \in 1..Len(samples) : p \in Paths(samples[i])}

Built == Len(output) = 1

C18_PresentCountsDocuments ==
  Built =>
    LET fields == output[1]
        total == Len(input)
    IN \A i \in 1..Len(fields) :
         LET n == Cardinality(Exposing(input, fields[i].path))
         IN /\ fields[i].present = n
            /\ fields[i].present <= total
            /\ fields[i].optional <=> n < total

(***************************************************************************)
(* C19: for a fixed set of sampled documents the candidate is the same,    *)
(* path by path (present, optional and the type list in its order), for    *)
(* every order in which the documents are visited.                         *)
(***************************************************************************)
Permute(samples, p) == [i \in 1..Len(samples) |-> samples[p[i]]]

AsMap(fields) == {fields[i] : i \in 1..Len(fields)}

C19_VisitOrderIrrelevant ==
  Built =>
    \A p \in Permutations(1..Len(input)) :
      AsMap(Candidate(Permute(input, p))) = AsMap(output[1])

(***************************************************************************)
(* C20: of an array at path p collect visits the first 3 elements only and *)
(* records them under the shared path p[], keys of object elements under   *)
(* p[].k; an element at index 3 or later adds no entry, no count and no    *)
(* type tag.                                                               *)
(***************************************************************************)
Head3(items) == SubSeq(items, 1, Min(Len(items), ArrayCap))

Entry(stats, p) == CHOOSE e \in Range(stats) : e.path = p

C20_ArrayCap ==
  (Collected /\ Len(input[1].kv) = 1 /\ input[1].kv[1][2].t = "array") =>
    LET stats == output[1]
        items == input[1].kv[1][2].items
        seen == Head3(items)
        scalars == {i \in 1..Len(seen) : seen[i].t # "object"}
        objects == {i \in 1..Len(seen) : seen[i].t = "object"}
    IN /\ {e.path : e \in Range(stats)} \subseteq {"a", "a[]", "a[].k"}
       /\ HasPath(stats, "a[]") <=> scalars # {}
       /\ HasPath(stats, "a[].k") <=> objects # {}
       /\ scalars # {} =>
            /\ Entry(stats, "a[]").count = Cardinality(scalars)
            /\ Range(Entry(stats, "a[]").types) = {typeName(seen[i]) : i \in scalars}
       /\ objects # {} => Entry(stats, "a[].k").count = Cardinality(objects)
       /\ stats = collect(Obj(<< <<"a", Arr(seen)>> >>), <<>>, "")

\* the element at index 3 is a string after three integers, and left no trace
C20_Witness ==
  /\ Collected
  /\ HasPath(output[1], "a[]")
  /\ input[1].kv[1][2].items =
       <<Scalar("integer"), Scalar("integer"), Scalar("integer"), Scalar("string")>>
  /\ Entry(output[1], "a[]").count = 3
  /\ Entry(output[1], "a[]").types = <<"integer">>

(***************************************************************************)
(* C21: a top-level value that is a scalar, null or undefined is recorded  *)
(* under the path "value": the count of that path goes up by one and the   *)
(* type tag of the value is in its type set, the tag null for null and     *)
(* undefined.                                                              *)
(***************************************************************************)
TopCollected == Len(output) = 2

CountOf(stats, p) == IF HasPath(stats, p) THEN Entry(stats, p).count ELSE 0

C21_TopLevelValue ==
  TopCollected =>
    LET v == input[Len(input)]
        tag == IF v.t \in {"null", "undefined"} THEN "null" ELSE v.t
        before == output[1]
        after == output[2]
    IN /\ HasPath(after, "value")
       /\ CountOf(after, "value") = CountOf(before, "value") + 1
       /\ tag \in Range(Entry(after, "value").types)

(***************************************************************************)
(* C23: the three sequences returned by diffSchemas are pairwise disjoint  *)
(* and without duplicates, every path in them is a key of A or of B, and   *)
(* diffSchemas(A, A) returns added, removed and changed all empty.         *)
(***************************************************************************)
NoDuplicates(seq) == Len(seq) = Cardinality(Range(seq))

C23_DiffPartition ==
  DiffApplied =>
    LET d == output[1]
        keys == Range(Keys(input[1])) \cup Range(Keys(input[2]))
    IN /\ NoDuplicates(d.added) /\ NoDuplicates(d.removed) /\ NoDuplicates(d.changed)
       /\ Range(d.added) \cap Range(d.removed) = {}
       /\ Range(d.added) \cap Range(d.changed) = {}
       /\ Range(d.removed) \cap Range(d.changed) = {}
       /\ Range(d.added) \cup Range(d.removed) \cup Range(d.changed) \subseteq keys
       /\ output[3] = [added |-> <<>>, removed |-> <<>>, changed |-> <<>>]

\* all three sequences are inhabited, and A compared with itself has two keys
C23_Witness ==
  /\ DiffApplied
  /\ Len(input[1]) = 2
  /\ output[1].added # <<>>
  /\ output[1].removed # <<>>
  /\ output[1].changed # <<>>
  /\ output[3].changed = <<>>

(***************************************************************************)
(* C24: every persisted snapshot is well formed: its version is at least   *)
(* 1, its totalSamples at least 1, and every path of its fields has        *)
(* present at least 1, a type list that is not empty and holds tags of the *)
(* vocabulary only, and optional true exactly when present is less than    *)
(* totalSamples.                                                           *)
(***************************************************************************)
TagVocabulary == {"null", "array", "object", "integer", "number", "string", "boolean"}

WellFormed(snap) ==
  /\ snap.version >= 1
  /\ snap.totalSamples >= 1
  /\ \A i \in 1..Len(snap.fields) :
       LET f == snap.fields[i]
       IN /\ f.present >= 1
          /\ f.types # <<>>
          /\ Range(f.types) \subseteq TagVocabulary
          /\ f.optional <=> f.present < snap.totalSamples

Quiescent ==
  /\ Len(raw) > 0
  /\ \A c \in CallIds : ~Active(c)
  /\ \A c \in CallIds : Done(c) => calls[c].result \in {"snapshot", "null"}

C22_ConvergesAfterQuiescence ==
  Quiescent =>
    /\ FindLatest(versions) # NoSnap
    /\ SameUpToTypeOrder(FindLatest(versions).fields,
                         Candidate(FindRecent(raw, SampleSize)))

====
